---------------------------- MODULE Spec2Model ----------------------------
(***************************************************************************)
(* Multi-profile accounts of jooy-app: the normalized store                *)
(* (accounts, student_profiles, the scoped-resource tables), the three     *)
(* multi-user migrations applied in file order (billowing_mode,            *)
(* purple_fire, cold_pond), the row-level-security policies and helper     *)
(* functions they install, the new-account bootstrap trigger, and the      *)
(* client (AuthContext, normalized-table variant, and the useStudentData   *)
(* hooks) that drives them.                                                *)
(*                                                                         *)
(* Modelling decisions:                                                    *)
(*  - a migration file runs in one transaction: a statement that raises    *)
(*    aborts the file and leaves the database as it was;                   *)
(*  - name collisions between the DDL of two migration files are not       *)
(*    modelled; CREATE OR REPLACE / CREATE POLICY of a later file takes    *)
(*    effect, CREATE TABLE IF NOT EXISTS of a later file is skipped;       *)
(*  - permissive policies of one table are OR-ed, as PostgreSQL does;      *)
(*  - uuids are opaque: a profile id is the pair <<account, k>> of the     *)
(*    account given at insertion and a per-account serial number;          *)
(*  - profile names other than 'Student 1' are interchangeable, so a       *)
(*    create is tried with 'Student 1', the first unused name of NameSeq,  *)
(*    a blank name and an over-long one.                                   *)
(***************************************************************************)
EXTENDS Integers, Sequences, FiniteSets, TLC

Accounts == {"a1", "a2"}
Sessions == {"s1"}

\* bounds of the model
MaxSlots == 2        \* profile ids per account
LimitSlots == 11     \* profile ids per account, specification SpecLimit
MaxRows == 1         \* rows of before the migrations
AccessRowCap == 2    \* scoped-resource rows, specification SpecAccess
HookRowCap == 2      \* scoped-resource rows, specification SpecHooks
MaxClock == 1        \* values of now() after the first
MaxDeletes == 2      \* soft-deleted profiles
LimitDeletes == 1    \* soft-deleted profiles, specification SpecLimit
DeleteSlots == 3     \* profiles per account, specification SpecDelete

\* program constants
ProfileLimit == 10
MaxNameLength == 50

Null == "null"          \* SQL NULL / JavaScript null, for text and account ids
NullAcct == Null
NoId == <<>>
NullTime == 0 - 1

DefaultName == "Student 1"
EmptyName == ""
BlankName == "   "
LongName == "name of 51 characters"
NameSeq == <<"Student 1", "Ann", "N03", "N04", "N05", "N06", "N07", "N08",
             "N09", "N10", "N11">>
ValidNames == {NameSeq[k] : k \in 1..Len(NameSeq)}
FullNames == {EmptyName, "Ann"}                  \* raw_user_meta_data->>'full_name'
InitialNames == {DefaultName, "N03", BlankName}  \* ->>'initial_profile_name'

\* length(profile_name) and length(trim(profile_name))
NameLength(n) ==
  CASE n = EmptyName -> 0
    [] n = BlankName -> 3
    [] n = LongName -> 51
    [] OTHER -> 9

TrimLength(n) == IF n = BlankName THEN 0 ELSE NameLength(n)

\* the tables that carry student_profile_id
Tables == {"documents", "document_regions", "text_assignments", "tts_requests",
           "notifications", "document_texts", "folders"}
\* the tables the model puts rows in
RowTables == {"documents"}

VARIABLES
  applied,     \* number of multi-user migrations applied, 0..3
  users,       \* auth.users
  accounts,    \* public.accounts (public.profiles before the rename): id -> full_name
  profiles,    \* public.student_profiles: id -> row
  rows,        \* the scoped-resource rows: row id -> [tbl, user_id, student_profile_id]
  notnull,     \* tables whose student_profile_id is NOT NULL with a foreign key
  clock,       \* now()
  sess,        \* the AuthProvider state and localStorage of each client
  last,        \* the last operation and its outcome
  blob,        \* preferences-blob provider: the user's row of public.profiles
  sync,        \* preferences-blob provider: the AuthProvider state of one client
  legacy       \* first preferences-blob provider: its state and its fetches in flight

vars == <<applied, users, accounts, profiles, rows, notnull, clock, sess, last,
          blob, sync, legacy>>

-----------------------------------------------------------------------------
\* student_profiles

ProfilesOf(P, a) == {i \in DOMAIN P : P[i].account_id = a}
ActiveOf(P, a) == {i \in ProfilesOf(P, a) : P[i].is_active}

NewId(P, a) == <<a, 1 + Cardinality({i \in DOMAIN P : i[1] = a})>>

\* a row as INSERT builds it: is_active DEFAULT TRUE, updated_at DEFAULT now()
NewProfile(a, name, accessed) ==
  [account_id |-> a, profile_name |-> name, is_active |-> TRUE,
   last_accessed_at |-> accessed, updated_at |-> clock]

\* CHECK (length(trim(profile_name)) > 0), CHECK (length(profile_name) <= 50)
NameChecks(r) ==
  /\ TrimLength(r.profile_name) > 0
  /\ NameLength(r.profile_name) <= MaxNameLength

\* UNIQUE (account_id, profile_name, is_active), row i excepted
UniqueOk(P, i, r) ==
  \A j \in DOMAIN P \ {i} :
     ~ /\ P[j].account_id = r.account_id
       /\ P[j].profile_name = r.profile_name
       /\ P[j].is_active = r.is_active

\* BEFORE INSERT trigger of purple_fire: raises when the account has 10 rows
check_student_profile_limit(P, r) ==
  Cardinality(ProfilesOf(P, r.account_id)) < ProfileLimit

\* INSERT INTO student_profiles by a definer or by the client: does it pass
\* (trig: the limit trigger is installed; A: the accounts table)
InsertOk(P, A, r, trig) ==
  /\ r.account_id \in DOMAIN A
  /\ NameChecks(r)
  /\ UniqueOk(P, NoId, r)
  /\ trig => check_student_profile_limit(P, r)

InsertProfile(P, r) == P @@ (NewId(P, r.account_id) :> r)

\* a run of inserts in one (sub)transaction: the table after them, or the
\* failure of the first insert that raises
RECURSIVE InsertAll(_, _, _, _)
InsertAll(P, A, rs, trig) ==
  IF rs = <<>> THEN [ok |-> TRUE, P |-> P]
  ELSE IF ~InsertOk(P, A, Head(rs), trig) THEN [ok |-> FALSE, P |-> P]
  ELSE InsertAll(InsertProfile(P, Head(rs)), A, Tail(rs), trig)

\* BEFORE UPDATE trigger update_student_profiles_updated_at
update_updated_at_column(r) == [r EXCEPT !.updated_at = clock]

-----------------------------------------------------------------------------
\* ownership predicate, as each migration defines it (auth.uid() = uid)

is_student_profile_owner_billowing(P, uid, profile_id) ==
  \E i \in DOMAIN P :
     /\ i = profile_id
     /\ P[i].account_id = uid
     /\ P[i].is_active = TRUE

is_student_profile_owner_purple(P, uid, profile_id) ==
  \E i \in DOMAIN P :
     /\ i = profile_id
     /\ P[i].account_id = uid

is_student_profile_owner_cold(P, uid, profile_id) ==
  \E i \in DOMAIN P :
     i = profile_id /\ P[i].account_id = uid

\* the definition in force: CREATE OR REPLACE of the last file applied
is_student_profile_owner(P, uid, profile_id) ==
  CASE applied = 1 -> is_student_profile_owner_billowing(P, uid, profile_id)
    [] applied = 2 -> is_student_profile_owner_purple(P, uid, profile_id)
    [] applied = 3 -> is_student_profile_owner_cold(P, uid, profile_id)
    [] OTHER -> FALSE

\* switch_to_profile without "id = profile_id": every active profile of the
\* caller is stamped
switch_to_profile_whole_account(P, uid, profile_id) ==
  [i \in DOMAIN P |->
     IF /\ P[i].account_id = uid
        /\ P[i].is_active = TRUE
     THEN update_updated_at_column([P[i] EXCEPT !.last_accessed_at = clock])
     ELSE P[i]]

\* switch_to_profile of billowing_mode: the table after the call
switch_to_profile_billowing(P, uid, profile_id) ==
  [i \in DOMAIN P |->
     IF /\ i = profile_id
        /\ P[i].account_id = uid
        /\ P[i].is_active = TRUE
     THEN update_updated_at_column([P[i] EXCEPT !.last_accessed_at = clock])
     ELSE P[i]]

\* switch_to_profile of cold_pond
switch_to_profile_cold(P, uid, profile_id) ==
  IF ~is_student_profile_owner(P, uid, profile_id) THEN P
  ELSE [i \in DOMAIN P |->
          IF i = profile_id
          THEN update_updated_at_column([P[i] EXCEPT !.last_accessed_at = clock])
          ELSE P[i]]

switch_to_profile(P, uid, profile_id) ==
  CASE applied = 3 -> switch_to_profile_cold(P, uid, profile_id)
    [] applied \in {1, 2} -> switch_to_profile_billowing(P, uid, profile_id)
    [] OTHER -> P

\* what the call reports: cold_pond returns a boolean, billowing_mode
\* returns void and the call is a success when a row was stamped
SwitchResult(P, uid, profile_id) ==
  CASE applied = 3 -> is_student_profile_owner(P, uid, profile_id)
    [] applied \in {1, 2} ->
         \E i \in DOMAIN P :
            i = profile_id /\ P[i].account_id = uid /\ P[i].is_active
    [] OTHER -> FALSE

-----------------------------------------------------------------------------
\* row-level security of the scoped-resource tables

\* "Student profile owners can manage their own ..." (billowing_mode, FOR ALL)
policy_billowing(uid, r) == is_student_profile_owner(profiles, uid, r.student_profile_id)

\* the CASE with its branches in the other order: user_id decides first
policy_purple_user_first(uid, r) ==
  CASE r.user_id # NullAcct -> uid = r.user_id
    [] r.student_profile_id # NoId -> is_student_profile_owner(profiles, uid, r.student_profile_id)
    [] OTHER -> FALSE

\* "Account owners can manage ... via student profiles" (purple_fire, FOR ALL)
policy_purple(uid, r) ==
  CASE r.student_profile_id # NoId -> is_student_profile_owner(profiles, uid, r.student_profile_id)
    [] r.student_profile_id = NoId /\ r.user_id # NullAcct -> uid = r.user_id
    [] OTHER -> FALSE

\* "Students can view/create/update/delete their own ..." (cold_pond); there
\* is no DELETE policy for tts_requests and notifications
policy_cold(op, uid, r) ==
  /\ ~(op = "delete" /\ r.tbl \in {"tts_requests", "notifications"})
  /\ r.student_profile_id # NoId
  /\ is_student_profile_owner(profiles, uid, r.student_profile_id)

\* the permissive policies installed on the table, OR-ed
RowPolicy(op, uid, r) ==
  \/ applied >= 1 /\ policy_billowing(uid, r)
  \/ applied >= 2 /\ policy_purple(uid, r)
  \/ applied >= 3 /\ policy_cold(op, uid, r)

\* the foreign key without NOT NULL
RowConstraints_nullable(r) ==
  r.tbl \in notnull =>
    r.student_profile_id = NoId \/ r.student_profile_id \in DOMAIN profiles

\* NOT NULL and the foreign key of a tightened table
RowConstraints(r) ==
  r.tbl \in notnull => r.student_profile_id \in DOMAIN profiles

-----------------------------------------------------------------------------
\* the data migrations

Coalesce(x, d) == IF x = Null THEN d ELSE x

\* UPDATE <table> SET student_profile_id = pid
\*   WHERE user_id = a AND student_profile_id IS NULL, for every table
Backfill(R, a, pid) ==
  [k \in DOMAIN R |->
     IF R[k].user_id = a /\ R[k].student_profile_id = NoId
     THEN [R[k] EXCEPT !.student_profile_id = pid]
     ELSE R[k]]

\* billowing_mode step 5: for each account, the active 'Student 1' profile
\* (created when there is none) receives the account's unreferenced rows
RECURSIVE MigrateBillowing(_, _, _, _)
MigrateBillowing(P, R, todo, trig) ==
  IF todo = {} THEN [ok |-> TRUE, P |-> P, R |-> R]
  ELSE LET a == CHOOSE x \in todo : TRUE
           found == {i \in DOMAIN P : /\ P[i].account_id = a
                                      /\ P[i].profile_name = DefaultName
                                      /\ P[i].is_active = TRUE}
           r == NewProfile(a, DefaultName, NullTime)
       IN IF found # {}
          THEN MigrateBillowing(P, Backfill(R, a, CHOOSE i \in found : TRUE),
                                todo \ {a}, trig)
          ELSE IF ~InsertOk(P, accounts, r, trig)
          THEN [ok |-> FALSE, P |-> P, R |-> R]
          ELSE MigrateBillowing(InsertProfile(P, r), Backfill(R, a, NewId(P, a)),
                                todo \ {a}, trig)

\* step 6 without the count of the remaining null references
Tightened_unchecked(R) == Tables

\* billowing_mode step 6: the tables left without a null reference
Tightened(R) ==
  {t \in Tables : ~\E k \in DOMAIN R : R[k].tbl = t /\ R[k].student_profile_id = NoId}

\* purple_fire steps 11-12: migrate_existing_data_to_student_profiles(), over
\* the accounts that have no student profile at all
RECURSIVE MigratePurple(_, _, _, _)
MigratePurple(P, R, todo, trig) ==
  IF todo = {} THEN [ok |-> TRUE, P |-> P, R |-> R]
  ELSE LET a == CHOOSE x \in todo : TRUE
           r == NewProfile(a, Coalesce(accounts[a], DefaultName), clock)
       IN IF ~InsertOk(P, accounts, r, trig)
          THEN [ok |-> FALSE, P |-> P, R |-> R]
          ELSE MigratePurple(InsertProfile(P, r), Backfill(R, a, NewId(P, a)),
                             todo \ {a}, trig)

\* cold_pond steps 7-8: migrate_existing_data_to_multi_user(), over every account
RECURSIVE MigrateCold(_, _, _, _)
MigrateCold(P, R, todo, trig) ==
  IF todo = {} THEN [ok |-> TRUE, P |-> P, R |-> R]
  ELSE LET a == CHOOSE x \in todo : TRUE
           r == NewProfile(a, DefaultName, clock)
       IN IF ~InsertOk(P, accounts, r, trig)
          THEN [ok |-> FALSE, P |-> P, R |-> R]
          ELSE MigrateCold(InsertProfile(P, r), Backfill(R, a, NewId(P, a)),
                           todo \ {a}, trig)

ApplyBillowingMode ==
  /\ applied = 0
  /\ LET m == MigrateBillowing(profiles, rows, DOMAIN accounts, FALSE)
     IN /\ applied' = IF m.ok THEN 1 ELSE applied
        /\ profiles' = IF m.ok THEN m.P ELSE profiles
        /\ rows' = IF m.ok THEN m.R ELSE rows
        /\ notnull' = IF m.ok THEN Tightened(m.R) ELSE notnull
        /\ last' = [op |-> "migrate", file |-> 1, ok |-> m.ok,
                    partial |-> m.P # profiles]
  /\ UNCHANGED <<users, accounts, clock, sess, blob, sync, legacy>>

\* the limit trigger is created in step 14, after the data migration of step 12
ApplyPurpleFire ==
  /\ applied = 1
  /\ LET todo == {a \in DOMAIN accounts : ProfilesOf(profiles, a) = {}}
         m == MigratePurple(profiles, rows, todo, FALSE)
     IN /\ applied' = IF m.ok THEN 2 ELSE applied
        /\ profiles' = IF m.ok THEN m.P ELSE profiles
        /\ rows' = IF m.ok THEN m.R ELSE rows
        /\ last' = [op |-> "migrate", file |-> 2, ok |-> m.ok,
                    partial |-> m.P # profiles]
  /\ UNCHANGED <<users, accounts, notnull, clock, sess, blob, sync, legacy>>

\* the file run statement by statement outside a transaction: what was done
\* before the statement that raises stays
ApplyColdPond_autocommit ==
  /\ applied = 2
  /\ LET m == MigrateCold(profiles, rows, DOMAIN accounts, TRUE)
     IN /\ applied' = IF m.ok THEN 3 ELSE applied
        /\ profiles' = m.P
        /\ rows' = m.R
        /\ last' = [op |-> "migrate", file |-> 3, ok |-> m.ok,
                    partial |-> m.P # profiles]
  /\ UNCHANGED <<users, accounts, notnull, clock, sess, blob, sync, legacy>>

ApplyColdPond ==
  /\ applied = 2
  /\ LET m == MigrateCold(profiles, rows, DOMAIN accounts, TRUE)
     IN /\ applied' = IF m.ok THEN 3 ELSE applied
        /\ profiles' = IF m.ok THEN m.P ELSE profiles
        /\ rows' = IF m.ok THEN m.R ELSE rows
        /\ last' = [op |-> "migrate", file |-> 3, ok |-> m.ok,
                    partial |-> m.P # profiles]
  /\ UNCHANGED <<users, accounts, notnull, clock, sess, blob, sync, legacy>>

\* the migration procedures run again by an administrator: steps 5 and 6 of
\* billowing_mode, and the functions purple_fire and cold_pond leave behind;
\* first: the run starts from the state its first run produced
RunLog(file, m) ==
  [op |-> "remigrate", file |-> file, ok |-> m.ok, partial |-> m.P # profiles,
   first |-> last.op = "migrate" /\ last.file = file /\ last.ok]

RunBillowingSteps ==
  /\ applied >= 1
  /\ LET m == MigrateBillowing(profiles, rows, DOMAIN accounts, applied >= 2)
     IN /\ profiles' = IF m.ok THEN m.P ELSE profiles
        /\ rows' = IF m.ok THEN m.R ELSE rows
        /\ notnull' = IF m.ok THEN notnull \cup Tightened(m.R) ELSE notnull
        /\ last' = RunLog(1, m)
  /\ UNCHANGED <<applied, users, accounts, clock, sess, blob, sync, legacy>>

RunMigratePurple ==
  /\ applied >= 2
  /\ LET todo == {a \in DOMAIN accounts : ProfilesOf(profiles, a) = {}}
         m == MigratePurple(profiles, rows, todo, TRUE)
     IN /\ profiles' = IF m.ok THEN m.P ELSE profiles
        /\ rows' = IF m.ok THEN m.R ELSE rows
        /\ last' = RunLog(2, m)
  /\ UNCHANGED <<applied, users, accounts, notnull, clock, sess, blob, sync, legacy>>

RunMigrateCold ==
  /\ applied >= 3
  /\ LET m == MigrateCold(profiles, rows, DOMAIN accounts, TRUE)
     IN /\ profiles' = IF m.ok THEN m.P ELSE profiles
        /\ rows' = IF m.ok THEN m.R ELSE rows
        /\ last' = RunLog(3, m)
  /\ UNCHANGED <<applied, users, accounts, notnull, clock, sess, blob, sync, legacy>>

-----------------------------------------------------------------------------
\* new-account bootstrap: the trigger on auth.users and the triggers on accounts

\* the rows the triggers insert, in firing order: on_account_created
\* (purple_fire) and on_auth_user_created_multi_profile (cold_pond) fire after
\* the INSERT INTO accounts, then handle_new_user inserts its own profile
BootstrapInserts(a, full, initial) ==
     (IF applied >= 2 THEN <<NewProfile(a, Coalesce(full, DefaultName), clock)>> ELSE <<>>)
  \o (IF applied >= 3 THEN <<NewProfile(a, DefaultName, clock)>> ELSE <<>>)
  \o <<NewProfile(a, Coalesce(initial, DefaultName), NullTime)>>

\* handle_new_user: before billowing_mode it inserts the account only; from
\* billowing_mode on, any exception undoes the account and the profiles and
\* the credential is created all the same
handle_new_user(a, full, initial) ==
  LET A1 == accounts @@ (a :> full)
      res == InsertAll(profiles, A1, BootstrapInserts(a, full, initial), applied >= 2)
  IN IF applied = 0 THEN [ok |-> TRUE, A |-> A1, P |-> profiles]
     ELSE IF res.ok THEN [ok |-> TRUE, A |-> A1, P |-> res.P]
     ELSE [ok |-> FALSE, A |-> accounts, P |-> profiles]

SignUp(a, full, initial) ==
  /\ a \notin users
  /\ LET h == handle_new_user(a, full, initial)
     IN /\ users' = users \cup {a}
        /\ accounts' = h.A
        /\ profiles' = h.P
        /\ last' = [op |-> "signup", a |-> a, ok |-> h.ok]
  /\ UNCHANGED <<applied, rows, notnull, clock, sess, blob, sync, legacy>>

Tick ==
  /\ clock < MaxClock
  /\ clock' = clock + 1
  /\ UNCHANGED <<applied, users, accounts, profiles, rows, notnull, sess, last, blob, sync, legacy>>

-----------------------------------------------------------------------------
\* the client: AuthProvider (normalized-table variant) and localStorage

NoSession ==
  [user |-> NullAcct, account |-> FALSE, loaded |-> FALSE, ids |-> {},
   active |-> NoId, stored |-> NoId]

\* rows that may come first under
\* .order('last_accessed_at', { ascending: false, nullsFirst: false })
\* the order with nullsFirst: true
FirstCandidates_nulls_first(P, F) ==
  LET N == {i \in F : P[i].last_accessed_at = NullTime}
  IN IF N # {} THEN N
     ELSE {i \in F : \A j \in F : P[i].last_accessed_at >= P[j].last_accessed_at}

\* .order('last_accessed_at', { ascending: false, nullsFirst: false }): the
\* profiles that may come first
FirstCandidates(P, F) ==
  {i \in F : \A j \in F : P[i].last_accessed_at >= P[j].last_accessed_at}

\* fetchAccountAndProfiles(userId) when the first fetched profile is `first`:
\* the client state and the student_profiles table after it
fetchAccountAndProfiles(c, P, first) ==
  LET uid == c.user
      fetched == ActiveOf(P, uid)
      pickFirst ==
        IF fetched # {}
        THEN [c |-> [c EXCEPT !.account = TRUE, !.loaded = TRUE, !.ids = fetched,
                              !.active = first, !.stored = first],
              P |-> switch_to_profile(P, uid, first)]
        ELSE [c |-> [c EXCEPT !.account = TRUE, !.loaded = TRUE, !.ids = fetched,
                              !.active = NoId, !.stored = NoId],
              P |-> P]
  IN IF applied = 0 \/ uid \notin DOMAIN accounts
     THEN [c |-> [c EXCEPT !.account = FALSE, !.loaded = FALSE, !.ids = {},
                           !.active = NoId],
           P |-> P]
     ELSE IF c.stored # NoId /\ c.stored \in fetched
     THEN [c |-> [c EXCEPT !.account = TRUE, !.loaded = TRUE, !.ids = fetched,
                           !.active = c.stored],
           P |-> switch_to_profile(P, uid, c.stored)]
     ELSE pickFirst

\* the choices of `first` a fetch may see
FirstChoices(c, P) ==
  LET F == FirstCandidates(P, ActiveOf(P, c.user))
  IN IF F = {} THEN {NoId} ELSE F

\* onAuthStateChange with a session
Login(s, a) ==
  /\ sess[s].user = NullAcct
  /\ a \in users
  /\ \E first \in FirstChoices([sess[s] EXCEPT !.user = a], profiles) :
       LET f == fetchAccountAndProfiles([sess[s] EXCEPT !.user = a], profiles, first)
       IN /\ sess' = [sess EXCEPT ![s] = f.c]
          /\ profiles' = f.P
          /\ last' = [op |-> "login",
                      nulls |-> \E j \in ActiveOf(profiles, a) :
                                  profiles[j].last_accessed_at = NullTime,
                      hadstamp |-> /\ first # NoId
                                   /\ profiles[first].last_accessed_at # NullTime]
  /\ UNCHANGED <<applied, users, accounts, rows, notnull, clock, blob, sync, legacy>>

\* onAuthStateChange without a session
SignOut(s) ==
  /\ sess[s].user # NullAcct
  /\ sess' = [sess EXCEPT ![s] = NoSession]
  /\ last' = [op |-> "logout"]
  /\ UNCHANGED <<applied, users, accounts, profiles, rows, notnull, clock, blob, sync, legacy>>

selectStudentProfile(s, profileId) ==
  /\ sess[s].user # NullAcct
  /\ sess[s].loaded
  /\ IF profileId \in sess[s].ids
     THEN /\ sess' = [sess EXCEPT ![s].active = profileId, ![s].stored = profileId]
          /\ profiles' = switch_to_profile(profiles, sess[s].user, profileId)
     ELSE UNCHANGED <<sess, profiles>>
  /\ last' = [op |-> "select", found |-> profileId \in sess[s].ids]
  /\ UNCHANGED <<applied, users, accounts, rows, notnull, clock, blob, sync, legacy>>

\* selectStudentProfile(profileId) when the switch_to_profile call fails or
\* is refused: the result of the call is not read
selectStudentProfile_rpc_fails(s, profileId) ==
  /\ sess[s].user # NullAcct
  /\ sess[s].loaded
  /\ profileId \in sess[s].ids
  /\ sess' = [sess EXCEPT ![s].active = profileId, ![s].stored = profileId]
  /\ last' = [op |-> "select_failed", pid |-> profileId]
  /\ UNCHANGED <<applied, users, accounts, profiles, rows, notnull, clock, blob, sync, legacy>>

\* the names a create is tried with: 'Student 1', a blank name, an over-long
\* name and the first name of NameSeq the account has not used yet
NameChoices(P, a) ==
  LET used == {P[i].profile_name : i \in ProfilesOf(P, a)}
      fresh == {k \in 1..Len(NameSeq) : NameSeq[k] \notin used}
  IN {DefaultName, BlankName, LongName}
       \cup (IF fresh = {} THEN {}
             ELSE {NameSeq[CHOOSE k \in fresh : \A m \in fresh : k <= m]})

\* createStudentProfile(profileName): the insert, then refreshAccountAndProfiles
createStudentProfile(s, profileName, cap) ==
  /\ sess[s].user # NullAcct
  /\ applied >= 1
  /\ Cardinality({i \in DOMAIN profiles : i[1] = sess[s].user}) < cap
  /\ LET uid == sess[s].user
         r == NewProfile(uid, profileName, NullTime)
         ok == InsertOk(profiles, accounts, r, applied >= 2)
         P1 == InsertProfile(profiles, r)
     IN /\ IF ok
           THEN \E first \in FirstChoices(sess[s], P1) :
                  LET f == fetchAccountAndProfiles(sess[s], P1, first)
                  IN sess' = [sess EXCEPT ![s] = f.c] /\ profiles' = f.P
           ELSE UNCHANGED <<sess, profiles>>
        /\ last' = [op |-> "create", ok |-> ok,
                    valid |-> profileName \in ValidNames,
                    unused |-> \A i \in ActiveOf(profiles, uid) :
                                  profiles[i].profile_name # profileName,
                    activeBefore |-> Cardinality(ActiveOf(profiles, uid))]
  /\ UNCHANGED <<applied, users, accounts, rows, notnull, clock, blob, sync, legacy>>

\* the UPDATE policy with WITH CHECK (true): any new row passes
student_profiles_with_check_true(uid, r) == TRUE

\* "Account owners can update their student profiles" (billowing_mode), and
\* the FOR ALL policies of purple_fire and cold_pond: USING and WITH CHECK
\* are both account_id = auth.uid()
student_profiles_using(uid, r) == r.account_id = uid
student_profiles_with_check(uid, r) == r.account_id = uid

\* the columns an update is tried on and the values it sets
UpdateFields == {"profile_name", "account_id", "is_active"}
UpdateValues(P, a, field) ==
  CASE field = "profile_name" -> {DefaultName, BlankName}
    [] field = "account_id" -> Accounts
    [] OTHER -> BOOLEAN

\* updateStudentProfile(profileId, updates): UPDATE student_profiles SET
\* <field> = <value> WHERE id = profileId AND account_id = user.id, then
\* refreshAccountAndProfiles
updateStudentProfile(s, profileId, field, value) ==
  /\ sess[s].user # NullAcct
  /\ applied >= 1
  /\ profileId \in DOMAIN profiles
  /\ LET uid == sess[s].user
         old == profiles[profileId]
         hit == old.account_id = uid /\ student_profiles_using(uid, old)
         new == CASE field = "profile_name" -> [old EXCEPT !.profile_name = value]
                  [] field = "account_id" -> [old EXCEPT !.account_id = value]
                  [] OTHER -> [old EXCEPT !.is_active = value]
         r == update_updated_at_column(new)
         ok == hit => /\ student_profiles_with_check(uid, r)
                      /\ r.account_id \in DOMAIN accounts
                      /\ NameChecks(r)
                      /\ UniqueOk(profiles, profileId, r)
         P1 == IF hit THEN [profiles EXCEPT ![profileId] = r] ELSE profiles
     IN /\ IF ok
           THEN \E first \in FirstChoices(sess[s], P1) :
                  LET f == fetchAccountAndProfiles(sess[s], P1, first)
                  IN sess' = [sess EXCEPT ![s] = f.c] /\ profiles' = f.P
           ELSE UNCHANGED <<sess, profiles>>
        /\ last' = [op |-> "update", ok |-> ok, hit |-> hit, field |-> field,
                    moves |-> field = "account_id" /\ value # old.account_id]
  /\ UNCHANGED <<applied, users, accounts, rows, notnull, clock, blob, sync, legacy>>

\* the delete without refreshAccountAndProfiles after it
deleteStudentProfile_no_refresh(s, profileId, delcap) ==
  /\ sess[s].user # NullAcct
  /\ applied >= 1
  /\ Cardinality({i \in DOMAIN profiles : ~profiles[i].is_active}) < delcap
  /\ LET uid == sess[s].user
         hit == profileId \in DOMAIN profiles /\ profiles[profileId].account_id = uid
         r == update_updated_at_column([profiles[profileId] EXCEPT !.is_active = FALSE])
         ok == hit => UniqueOk(profiles, profileId, r)
         P1 == IF hit THEN [profiles EXCEPT ![profileId] = r] ELSE profiles
         c1 == IF sess[s].active = profileId
               THEN [sess[s] EXCEPT !.active = NoId, !.stored = NoId]
               ELSE sess[s]
     IN /\ IF ok
           THEN sess' = [sess EXCEPT ![s] = c1] /\ profiles' = P1
           ELSE UNCHANGED <<sess, profiles>>
        /\ last' = [op |-> "delete", ok |-> ok, hit |-> hit,
                    wasactive |-> sess[s].active = profileId]
  /\ UNCHANGED <<applied, users, accounts, rows, notnull, clock, blob, sync, legacy>>

\* deleteStudentProfile(profileId): UPDATE ... SET is_active = false WHERE
\* id = profileId AND account_id = user.id, then refreshAccountAndProfiles
deleteStudentProfile(s, profileId, delcap) ==
  /\ sess[s].user # NullAcct
  /\ applied >= 1
  /\ Cardinality({i \in DOMAIN profiles : ~profiles[i].is_active}) < delcap
  /\ LET uid == sess[s].user
         hit == profileId \in DOMAIN profiles /\ profiles[profileId].account_id = uid
         r == update_updated_at_column([profiles[profileId] EXCEPT !.is_active = FALSE])
         ok == hit => UniqueOk(profiles, profileId, r)
         P1 == IF hit THEN [profiles EXCEPT ![profileId] = r] ELSE profiles
         c1 == IF sess[s].active = profileId
               THEN [sess[s] EXCEPT !.active = NoId, !.stored = NoId]
               ELSE sess[s]
     IN /\ IF ok
           THEN \E first \in FirstChoices(c1, P1) :
                  LET f == fetchAccountAndProfiles(c1, P1, first)
                  IN sess' = [sess EXCEPT ![s] = f.c] /\ profiles' = f.P
           ELSE UNCHANGED <<sess, profiles>>
        /\ last' = [op |-> "delete", ok |-> ok, hit |-> hit,
                    wasactive |-> sess[s].active = profileId]
  /\ UNCHANGED <<applied, users, accounts, rows, notnull, clock, blob, sync, legacy>>

-----------------------------------------------------------------------------
\* the useStudentData hooks

\* the query without .eq('student_profile_id', ...): whatever the policies show
HookRows_unfiltered(s, tbl) ==
  {k \in DOMAIN rows :
     /\ rows[k].tbl = tbl
     /\ RowPolicy("select", sess[s].user, rows[k])}

\* useStudentDocuments / useStudentFolders / useStudentNotifications /
\* useStudentData: SELECT ... WHERE student_profile_id = activeStudentProfile.id
HookRows(s, tbl) ==
  {k \in DOMAIN rows :
     /\ rows[k].tbl = tbl
     /\ rows[k].student_profile_id = sess[s].active
     /\ RowPolicy("select", sess[s].user, rows[k])}

useStudentData(s, tbl) ==
  /\ sess[s].active # NoId
  /\ last' = [op |-> "hook_read", s |-> s, touched |-> HookRows(s, tbl)]
  /\ UNCHANGED <<applied, users, accounts, profiles, rows, notnull, clock, sess, blob, sync, legacy>>

\* the id of the next row
NextRow == 1 + Cardinality(DOMAIN rows)

\* INSERT of row r by caller uid: the policy's WITH CHECK, then the constraints
InsertRowOk(uid, r) == RowPolicy("insert", uid, r) /\ RowConstraints(r)

\* useCreateStudentDocument: the row carries the active profile and, for
\* backward compatibility, its account
useCreateStudentDocument(s, cap) ==
  /\ sess[s].active # NoId
  /\ Cardinality(DOMAIN rows) < cap
  /\ LET r == [tbl |-> "documents",
               user_id |-> profiles[sess[s].active].account_id,
               student_profile_id |-> sess[s].active]
         ok == InsertRowOk(sess[s].user, r)
     IN /\ rows' = IF ok THEN rows @@ (NextRow :> r) ELSE rows
        /\ last' = [op |-> "hook_insert", s |-> s,
                    touched |-> IF ok THEN {NextRow} ELSE {}]
  /\ UNCHANGED <<applied, users, accounts, profiles, notnull, clock, sess, blob, sync, legacy>>

-----------------------------------------------------------------------------
\* direct calls of an authenticated account uid on the REST interface

\* what is kept of a call: the row's references as the caller stands to them,
\* the verdict of the policy on the row and whether the statement took effect
RefOwner(P, uid, pid) ==
  pid \in DOMAIN P /\ P[pid].account_id = uid /\ P[pid].is_active

Access(op, uid, r, allowed, done) ==
  [op |-> op,
   noref |-> r.student_profile_id = NoId,
   owner |-> RefOwner(profiles, uid, r.student_profile_id),
   isowner |-> is_student_profile_owner(profiles, uid, r.student_profile_id),
   foreign |-> /\ r.student_profile_id \in DOMAIN profiles
               /\ profiles[r.student_profile_id].account_id # uid,
   legacy |-> r.user_id # NullAcct /\ r.user_id = uid,
   tight |-> r.tbl \in notnull,
   allowed |-> allowed, done |-> done]

RowSelect(uid, k) ==
  /\ applied >= 1
  /\ k \in DOMAIN rows
  /\ LET allowed == RowPolicy("select", uid, rows[k])
     IN last' = Access("row_select", uid, rows[k], allowed, allowed)
  /\ UNCHANGED <<applied, users, accounts, profiles, rows, notnull, clock, sess, blob, sync, legacy>>

RowInsert(uid, tbl, owner, pid, cap) ==
  /\ applied >= 1
  /\ Cardinality(DOMAIN rows) < cap
  /\ LET r == [tbl |-> tbl, user_id |-> owner, student_profile_id |-> pid]
         allowed == RowPolicy("insert", uid, r)
         done == InsertRowOk(uid, r)
     IN /\ rows' = IF done THEN rows @@ (NextRow :> r) ELSE rows
        /\ last' = Access("row_insert", uid, r, allowed, done)
  /\ UNCHANGED <<applied, users, accounts, profiles, notnull, clock, sess, blob, sync, legacy>>

\* UPDATE ... SET student_profile_id = pid: USING on the old row, WITH CHECK
\* and the constraints on the new one
RowUpdate(uid, k, pid) ==
  /\ applied >= 1
  /\ k \in DOMAIN rows
  /\ LET r == [rows[k] EXCEPT !.student_profile_id = pid]
         allowed == RowPolicy("update", uid, rows[k])
         done == allowed /\ RowPolicy("update", uid, r) /\ RowConstraints(r)
     IN /\ rows' = IF done THEN [rows EXCEPT ![k] = r] ELSE rows
        /\ last' = Access("row_update", uid, rows[k], allowed, done)
  /\ UNCHANGED <<applied, users, accounts, profiles, notnull, clock, sess, blob, sync, legacy>>

RowDelete(uid, k) ==
  /\ applied >= 1
  /\ k \in DOMAIN rows
  /\ LET allowed == RowPolicy("delete", uid, rows[k])
     IN /\ rows' = IF allowed
                   THEN [j \in 1..(Cardinality(DOMAIN rows) - 1) |->
                           IF j < k THEN rows[j] ELSE rows[j + 1]]
                   ELSE rows
        /\ last' = Access("row_delete", uid, rows[k], allowed, allowed)
  /\ UNCHANGED <<applied, users, accounts, profiles, notnull, clock, sess, blob, sync, legacy>>

\* an id no insert hands out
MissingId == <<"a1", 0>>

\* supabase.rpc('switch_to_profile', { profile_id }) by account uid
SwitchToProfile(uid, pid) ==
  /\ applied >= 1
  /\ profiles' = switch_to_profile(profiles, uid, pid)
  /\ last' = [op |-> "switch", pid |-> pid,
              owner |-> RefOwner(profiles, uid, pid),
              again |-> last.op = "switch" /\ last.pid = pid /\ last.owner /\ last.ok,
              ok |-> SwitchResult(profiles, uid, pid)]
  /\ UNCHANGED <<applied, users, accounts, rows, notnull, clock, sess, blob, sync, legacy>>

-----------------------------------------------------------------------------
\* the AuthProvider that keeps the student profiles in the preferences blob of
\* the user's row of public.profiles, and guards its fetch with a timer

\* the devices the user runs the application on
Devices == {"d1", "d2"}

\* uuidv4(): ids of stored profiles, of a temporary profile and of the
\* activeProfileId of temporary preferences
BlobIds == {"p1", "p2", "p3"}
TempId == "tmp"
TempPointer == "tmp0"
NoProfile == "none"

MaxBlobProfiles == 2    \* profiles in a list of the blob

\* raw_user_meta_data->>'full_name', which the row's full_name is a copy of
MetaNames == {Null, "Ann Lee"}

\* full_name?.split(' ')[0] || 'Student'
FirstName(full) == IF full = "Ann Lee" THEN "Ann" ELSE "Student"

\* (user_metadata.full_name || 'User').split(' ')[0] || 'Student'
TempName(full) == IF full = Null THEN "User" ELSE FirstName(full)

\* the names a create or a rename is tried with
BlobNames == {"Ann", BlankName}

SeqRange(q) == {q[i] : i \in DOMAIN q}
IdsOf(q) == {q[i].id : i \in DOMAIN q}

\* preferences: the studentProfiles array, activeProfileId and whether the
\* object has other keys; null and {} read the same
NullPrefs == [studentProfiles |-> <<>>, activeProfileId |-> NoProfile, other |-> FALSE]

\* the studentProfiles and activeProfileId a row starts with; "p3" names no
\* profile of these lists
BlobLists ==
  {<<>>, <<[id |-> "p1", name |-> "Ann", is_active |-> TRUE]>>,
   <<[id |-> "p1", name |-> "Ann", is_active |-> TRUE], [id |-> "p2", name |-> "Bob", is_active |-> TRUE]>>}
BlobPointers == {NoProfile, "p1", "p2", "p3"}

\* no row for the user in public.profiles
NoBlob == [row |-> FALSE, full_name |-> Null, prefs |-> NullPrefs]

\* the provider after mount: nothing resolved, loading; ready is
\* isSupabaseReady, fixed by the configuration of the build; local is
\* localStorage's active_student_profile_id; wrote: the resolution or
\* selection in progress has sent an update of the preferences
NoSync ==
  [pc |-> "idle", account |-> "none", prefs |-> NullPrefs, profiles |-> <<>>,
   active |-> NoProfile, loading |-> TRUE, cause |-> "none", pend |-> <<>>,
   ready |-> TRUE, local |-> NoProfile, wrote |-> FALSE]

SavePcs == {"save_new", "save_default", "save_active"}

\* .update({ preferences }).eq('id', userId): no row, nothing updated and no error
WriteBlob(p) == IF blob.row THEN [blob EXCEPT !.prefs = p] ELSE blob

\* ids no list holds, for uuidv4() of a profile that may be stored
FreshIds ==
  BlobIds \ (IdsOf(blob.prefs.studentProfiles)
             \cup UNION {IdsOf(sync[d].profiles) \cup IdsOf(sync[d].pend) : d \in Devices})

\* fetchAccountAndProfiles returns to its caller, which sets loading to false
Settled(c, acct, p, list, act) ==
  [c EXCEPT !.pc = "done", !.account = acct, !.prefs = p, !.profiles = list,
            !.active = act, !.loading = FALSE, !.pend = <<>>]

\* the mock profile and the temporary profile of a timeout message:
\* preferences: null
TemporaryBare(c, name) ==
  Settled(c, "temp", NullPrefs, <<[id |-> TempId, name |-> name, is_active |-> TRUE]>>, TempId)

\* the temporary and the fallback profile: preferences hold the profile and
\* an activeProfileId of their own
Temporary(c, name) ==
  LET list == <<[id |-> TempId, name |-> name, is_active |-> TRUE]>>
  IN Settled(c, "temp",
             [studentProfiles |-> list, activeProfileId |-> TempPointer, other |-> FALSE],
             list, TempId)

\* setAccount(null); setStudentProfiles(null); setActiveStudentProfile(null)
Cleared(c) == Settled(c, "none", NullPrefs, <<>>, NoProfile)

\* initializeAuth / onAuthStateChange with a user: fetchAccountAndProfiles
\* starts; without a configured store it sets the mock profile and returns
BeginResolve(d) ==
  /\ sync[d].pc \in {"idle", "done"}
  /\ sync' = [sync EXCEPT ![d] =
                IF sync[d].ready
                THEN [sync[d] EXCEPT !.pc = "fetch", !.cause = "none", !.wrote = FALSE]
                ELSE TemporaryBare([sync[d] EXCEPT !.cause = "none", !.wrote = FALSE],
                                   "Student")]
  /\ UNCHANGED <<applied, users, accounts, profiles, rows, notnull, clock, sess, last, blob, legacy>>

\* onAuthStateChange without a session: the state is cleared
SessionEnds(d) ==
  /\ sync[d].pc = "done"
  /\ sync' = [sync EXCEPT ![d] =
                [Cleared([sync[d] EXCEPT !.cause = "none", !.wrote = FALSE])
                   EXCEPT !.pc = "idle", !.local = NoProfile]]
  /\ UNCHANGED <<applied, users, accounts, profiles, rows, notnull, clock, sess, last, blob, legacy>>

\* onAuthStateChange without a session while fetchAccountAndProfiles is
\* awaiting: the state is cleared and the fetch goes on
SignOutEvent(d) ==
  /\ sync[d].pc \notin {"idle", "done"}
  /\ sync' = [sync EXCEPT ![d] =
                [sync[d] EXCEPT !.account = "none", !.prefs = NullPrefs,
                                !.profiles = <<>>, !.active = NoProfile,
                                !.loading = FALSE, !.local = NoProfile]]
  /\ last' = [op |-> "signed_out", d |-> d]
  /\ UNCHANGED <<applied, users, accounts, profiles, rows, notnull, clock, sess, blob, legacy>>

\* the select of the user's row answers before the timer: with the row, with
\* PGRST116 (no row), with an error whose message names a timeout, or with
\* any other error
FetchReturns(d, kind) ==
  /\ sync[d].pc = "fetch"
  /\ kind = "data" => blob.row
  /\ kind = "missing" => ~blob.row
  /\ kind = "data" /\ blob.prefs.studentProfiles = <<>> => FreshIds # {}
  /\ LET c == sync[d]
         p == blob.prefs
         fresh == CHOOSE i \in FreshIds : TRUE
     IN sync' = [sync EXCEPT ![d] =
          CASE kind = "data" ->
                 IF p.studentProfiles # <<>>
                 THEN IF p.activeProfileId \in IdsOf(p.studentProfiles)
                      THEN Settled(c, "row", p, p.studentProfiles, p.activeProfileId)
                      ELSE [c EXCEPT !.pc = "save_active", !.account = "row",
                                     !.prefs = p, !.pend = p.studentProfiles]
                 ELSE [c EXCEPT !.pc = "save_default", !.account = "row", !.prefs = p,
                                !.pend = <<[id |-> fresh,
                                            name |-> FirstName(blob.full_name),
                                                 is_active |-> TRUE]>>]
            [] kind = "timeout_message" ->
                 TemporaryBare([c EXCEPT !.cause = "timeout"], TempName(blob.full_name))
            [] kind = "missing" -> [c EXCEPT !.pc = "getuser", !.cause = "missing"]
            [] OTHER -> Cleared([c EXCEPT !.cause = "other"])]
  /\ UNCHANGED <<applied, users, accounts, profiles, rows, notnull, clock, sess, last, blob, legacy>>

\* the select throws: the catch block sets the fallback profile
FetchThrows(d) ==
  /\ sync[d].pc = "fetch"
  /\ sync' = [sync EXCEPT ![d] =
                Temporary([sync[d] EXCEPT !.cause = "throw"], FirstName(blob.full_name))]
  /\ UNCHANGED <<applied, users, accounts, profiles, rows, notnull, clock, sess, last, blob, legacy>>

\* the 30 seconds pass before the select answers: fetchWithTimeout rejects
\* and the catch block sets the fallback profile
FetchTimerFires(d) ==
  /\ sync[d].pc = "fetch"
  /\ sync' = [sync EXCEPT ![d] =
                Temporary([sync[d] EXCEPT !.cause = "timeout"], FirstName(blob.full_name))]
  /\ UNCHANGED <<applied, users, accounts, profiles, rows, notnull, clock, sess, last, blob, legacy>>

\* supabase.auth.getUser() answers: with the user, with an error, or with
\* neither (which falls through to the unhandled-error lines)
GetUserReturns(d, kind) ==
  /\ sync[d].pc = "getuser"
  /\ sync' = [sync EXCEPT ![d] =
                IF kind = "user"
                THEN [sync[d] EXCEPT !.pc = "insert"]
                ELSE Cleared([sync[d] EXCEPT !.cause = "getuser"])]
  /\ UNCHANGED <<applied, users, accounts, profiles, rows, notnull, clock, sess, last, blob, legacy>>

\* supabase.auth.getUser() throws: the catch block sets the fallback profile
GetUserThrows(d) ==
  /\ sync[d].pc = "getuser"
  /\ sync' = [sync EXCEPT ![d] =
                Temporary([sync[d] EXCEPT !.cause = "throw"], FirstName(blob.full_name))]
  /\ UNCHANGED <<applied, users, accounts, profiles, rows, notnull, clock, sess, last, blob, legacy>>

\* the insert of the user's row answers before its timer: created (unless
\* another device created it first), or an error, which ends with the
\* temporary profile
InsertReturns(d, ok) ==
  /\ sync[d].pc = "insert"
  /\ ok => ~blob.row
  /\ ok => FreshIds # {}
  /\ blob' = IF ok THEN [blob EXCEPT !.row = TRUE, !.prefs = NullPrefs] ELSE blob
  /\ sync' = [sync EXCEPT ![d] =
                IF ok
                THEN [sync[d] EXCEPT !.pc = "save_new",
                                     !.pend = <<[id |-> CHOOSE i \in FreshIds : TRUE,
                                                 name |-> FirstName(blob.full_name),
                                                 is_active |-> TRUE]>>]
                ELSE Temporary([sync[d] EXCEPT !.cause = "insert"],
                               FirstName(blob.full_name))]
  /\ UNCHANGED <<applied, users, accounts, profiles, rows, notnull, clock, sess, last, legacy>>

\* the insert throws: the inner catch block sets the temporary profile
InsertThrows(d) ==
  /\ sync[d].pc = "insert"
  /\ sync' = [sync EXCEPT ![d] =
                Temporary([sync[d] EXCEPT !.cause = "throw"], FirstName(blob.full_name))]
  /\ UNCHANGED <<applied, users, accounts, profiles, rows, notnull, clock, sess, last, blob, legacy>>

\* the 10 seconds pass before the insert answers: Promise.race rejects and
\* the inner catch block sets the temporary profile
InsertTimerFires(d) ==
  /\ sync[d].pc = "insert"
  /\ sync' = [sync EXCEPT ![d] =
                Temporary([sync[d] EXCEPT !.cause = "timeout"], FirstName(blob.full_name))]
  /\ UNCHANGED <<applied, users, accounts, profiles, rows, notnull, clock, sess, last, blob, legacy>>

\* the preferences each awaited update sends: the new row's and the default
\* profile's without the keys the row had, the first profile's with them
SavedPrefs(c) ==
  IF c.pc = "save_active"
  THEN [c.prefs EXCEPT !.activeProfileId = c.pend[1].id]
  ELSE [studentProfiles |-> c.pend, activeProfileId |-> c.pend[1].id, other |-> FALSE]

\* what setAccount has put in account.preferences when the function returns:
\* the new row's are the saved ones, the others those of the fetched row
KeptPrefs(c) == IF c.pc = "save_new" THEN SavedPrefs(c) ELSE c.prefs

\* the awaited update of the preferences answers; its result is not looked
\* at, the local profiles are set either way
UpdateReturns(d, ok) ==
  /\ sync[d].pc \in SavePcs
  /\ blob' = IF ok THEN WriteBlob(SavedPrefs(sync[d])) ELSE blob
  /\ sync' = [sync EXCEPT ![d] =
                Settled([sync[d] EXCEPT !.wrote = TRUE], "row", KeptPrefs(sync[d]),
                        sync[d].pend, sync[d].pend[1].id)]
  /\ UNCHANGED <<applied, users, accounts, profiles, rows, notnull, clock, sess, last, legacy>>

\* the awaited update throws: caught and logged, the local profiles are set
UpdateThrows(d) ==
  /\ sync[d].pc \in SavePcs
  /\ sync' = [sync EXCEPT ![d] =
                Settled([sync[d] EXCEPT !.wrote = TRUE], "row", KeptPrefs(sync[d]),
                        sync[d].pend, sync[d].pend[1].id)]
  /\ UNCHANGED <<applied, users, accounts, profiles, rows, notnull, clock, sess, last, blob, legacy>>

FetchKinds == {"data", "missing", "timeout_message", "other"}
GetUserKinds == {"user", "error", "nouser"}

Resolution(d) ==
  \/ BeginResolve(d)
  \/ SessionEnds(d)
  \/ \E kind \in FetchKinds : FetchReturns(d, kind)
  \/ FetchThrows(d)
  \/ FetchTimerFires(d)
  \/ \E kind \in GetUserKinds : GetUserReturns(d, kind)
  \/ GetUserThrows(d)
  \/ \E ok \in BOOLEAN : InsertReturns(d, ok)
  \/ InsertThrows(d)
  \/ InsertTimerFires(d)
  \/ \E ok \in BOOLEAN : UpdateReturns(d, ok)
  \/ UpdateThrows(d)

\* the operations of the provider need user, account and studentProfiles
Loaded(d) == sync[d].pc = "done" /\ sync[d].account # "none"

Rename(list, id, name) ==
  [i \in DOMAIN list |-> IF list[i].id = id THEN [list[i] EXCEPT !.name = name] ELSE list[i]]

Remove(list, id) == SelectSeq(list, LAMBDA p : p.id # id)

\* what is kept of a selection: the device, the profile, whether it took
\* effect, the device of the selection just before (if that was the last
\* operation), and a bit that tells two equal selections in a row apart
SelectLog(d, profileId, done) ==
  [op |-> "blob_select", d |-> d, id |-> profileId, done |-> done,
   prev |-> IF last.op = "blob_select" /\ last.done THEN last.d ELSE "none",
   n |-> IF last.op = "blob_select" THEN 1 - last.n ELSE 0]

\* selectStudentProfile of the local state only: nothing is sent to the store
selectStudentProfile_blob_local(d, profileId, ok) ==
  /\ Loaded(d)
  /\ LET c == sync[d]
         found == profileId \in IdsOf(c.profiles)
         updated == [c.prefs EXCEPT !.activeProfileId = profileId]
         done == found /\ ok
     IN /\ blob' = blob
        /\ sync' = IF done
                   THEN [sync EXCEPT ![d] = [c EXCEPT !.active = profileId,
                                                      !.prefs = updated]]
                   ELSE sync
        /\ last' = SelectLog(d, profileId, done)
  /\ UNCHANGED <<applied, users, accounts, profiles, rows, notnull, clock, sess, legacy>>

\* selectStudentProfile(profileId): account.preferences with the new
\* activeProfileId are written; on success the profile becomes the active one
selectStudentProfile_blob(d, profileId, ok) ==
  /\ Loaded(d)
  /\ LET c == sync[d]
         found == profileId \in IdsOf(c.profiles)
         updated == [c.prefs EXCEPT !.activeProfileId = profileId]
         done == found /\ ok
     IN /\ blob' = IF done THEN WriteBlob(updated) ELSE blob
        /\ sync' = IF done
                   THEN [sync EXCEPT ![d] = [c EXCEPT !.active = profileId,
                                                      !.prefs = updated]]
                   ELSE sync
        /\ last' = SelectLog(d, profileId, done)
  /\ UNCHANGED <<applied, users, accounts, profiles, rows, notnull, clock, sess, legacy>>

\* createStudentProfile(profileName): the local list with the new profile
\* is written into account.preferences
createStudentProfile_blob(d, profileName, ok) ==
  /\ Loaded(d)
  /\ Len(sync[d].profiles) < MaxBlobProfiles
  /\ FreshIds # {}
  /\ LET c == sync[d]
         newProfile == [id |-> CHOOSE i \in FreshIds : TRUE, name |-> profileName, is_active |-> FALSE]
         updatedProfiles == Append(c.profiles, newProfile)
         updated == [c.prefs EXCEPT !.studentProfiles = updatedProfiles]
     IN /\ blob' = IF ok THEN WriteBlob(updated) ELSE blob
        /\ sync' = IF ok
                   THEN [sync EXCEPT ![d] = [c EXCEPT !.profiles = updatedProfiles,
                                                      !.prefs = updated]]
                   ELSE sync
        /\ last' = [op |-> "blob_create", d |-> d, id |-> newProfile.id, done |-> ok,
                    name |-> profileName,
                    taken |-> \E p \in SeqRange(blob.prefs.studentProfiles) :
                                 p.name = profileName]
  /\ UNCHANGED <<applied, users, accounts, profiles, rows, notnull, clock, sess, legacy>>

\* updateStudentProfile(profileId, { profile_name }): the local list with the
\* profile renamed is written into account.preferences
updateStudentProfile_blob(d, profileId, profileName, ok) ==
  /\ Loaded(d)
  /\ LET c == sync[d]
         updatedProfiles == Rename(c.profiles, profileId, profileName)
         updated == [c.prefs EXCEPT !.studentProfiles = updatedProfiles]
     IN /\ blob' = IF ok THEN WriteBlob(updated) ELSE blob
        /\ sync' = IF ok
                   THEN [sync EXCEPT ![d] = [c EXCEPT !.profiles = updatedProfiles,
                                                      !.prefs = updated]]
                   ELSE sync
        /\ last' = [op |-> "blob_update", d |-> d, id |-> profileId, done |-> ok,
                    name |-> profileName,
                    taken |-> \E p \in SeqRange(blob.prefs.studentProfiles) :
                                 p.id # profileId /\ p.name = profileName]
  /\ UNCHANGED <<applied, users, accounts, profiles, rows, notnull, clock, sess, legacy>>

\* deleteStudentProfile(profileId): the local list without the profile is
\* written into account.preferences; a deleted active profile is replaced by
\* the first profile that remains
deleteStudentProfile_blob(d, profileId, ok) ==
  /\ Loaded(d)
  /\ LET c == sync[d]
         updatedProfiles == Remove(c.profiles, profileId)
         moved == c.active = profileId /\ updatedProfiles # <<>>
         updated == [c.prefs EXCEPT
                       !.studentProfiles = updatedProfiles,
                       !.activeProfileId = IF moved THEN updatedProfiles[1].id ELSE @]
     IN /\ blob' = IF ok THEN WriteBlob(updated) ELSE blob
        /\ sync' = IF ok
                   THEN [sync EXCEPT ![d] =
                           [c EXCEPT !.profiles = updatedProfiles, !.prefs = updated,
                                     !.active = IF c.active # profileId THEN @
                                                ELSE IF moved THEN updatedProfiles[1].id
                                                ELSE NoProfile]]
                   ELSE sync
        /\ last' = [op |-> "blob_delete", d |-> d, id |-> profileId, done |-> ok,
                    stored |-> profileId \in IdsOf(blob.prefs.studentProfiles)]
  /\ UNCHANGED <<applied, users, accounts, profiles, rows, notnull, clock, sess, legacy>>

BlobSelection(d) ==
  \E id \in BlobIds \cup {TempId}, ok \in BOOLEAN : selectStudentProfile_blob(d, id, ok)

BlobLifecycle(d) ==
  \/ \E name \in BlobNames, ok \in BOOLEAN : createStudentProfile_blob(d, name, ok)
  \/ \E id \in BlobIds \cup {TempId}, name \in BlobNames, ok \in BOOLEAN :
       updateStudentProfile_blob(d, id, name, ok)
  \/ \E id \in BlobIds \cup {TempId}, ok \in BOOLEAN : deleteStudentProfile_blob(d, id, ok)

-----------------------------------------------------------------------------
\* the first preferences-blob provider: the profiles live in preferences of
\* the user's row of public.profiles; the fetch started by getSession and
\* the fetch started by an auth event run concurrently in one provider

Runs == {"getSession", "authEvent"}

\* a fetch that is not running: userPreferences as it read them, the
\* profiles and the active profile it is about to set
IdleRun == [pc |-> "idle", prefs |-> NullPrefs, pend |-> <<>>, act |-> NoProfile]

\* the provider after mount: user, account, account.preferences,
\* studentProfiles (null unless listed), activeStudentProfile, loading
NoLegacy ==
  [user |-> FALSE, account |-> FALSE, prefs |-> NullPrefs, listed |-> FALSE,
   profiles |-> <<>>, active |-> NoProfile, loading |-> TRUE,
   run |-> [r \in Runs |-> IdleRun]]

\* ids no list holds, for uuidv4()
LegacyFreshIds(l, b) ==
  BlobIds \ (IdsOf(b.prefs.studentProfiles) \cup IdsOf(l.profiles)
             \cup UNION {IdsOf(l.run[r].pend) : r \in Runs})

\* setAccount(null); setStudentProfiles(null); setActiveStudentProfile(null)
NoAccount(l) ==
  [l EXCEPT !.account = FALSE, !.prefs = NullPrefs, !.listed = FALSE,
            !.profiles = <<>>, !.active = NoProfile]

\* setStudentProfiles(list); setActiveStudentProfile(act)
Shown(l, list, act) ==
  [l EXCEPT !.listed = TRUE, !.profiles = list, !.active = act]

\* fetch r returns to its caller, which sets loading to false
Ended(l, r) ==
  [l EXCEPT !.loading = FALSE, !.run[r] = [IdleRun EXCEPT !.pc = "end"]]

\* supabase.auth.getSession().then(...)
GetSessionResolves(has) ==
  /\ legacy.run["getSession"].pc = "idle"
  /\ legacy' = IF has
               THEN [legacy EXCEPT !.user = TRUE, !.run["getSession"].pc = "fetch"]
               ELSE Ended([legacy EXCEPT !.user = FALSE], "getSession")
  /\ UNCHANGED <<applied, users, accounts, profiles, rows, notnull, clock, sess, last, blob, sync>>

\* supabase.auth.getSession() rejects: the promise has no rejection handler
GetSessionRejects ==
  /\ legacy.run["getSession"].pc = "idle"
  /\ legacy' = [legacy EXCEPT !.run["getSession"].pc = "rejected"]
  /\ UNCHANGED <<applied, users, accounts, profiles, rows, notnull, clock, sess, last, blob, sync>>

\* the onAuthStateChange callback up to its await, or to its end when the
\* event carries no session
AuthStateChange(has) ==
  /\ legacy.run["authEvent"].pc \in {"idle", "end"}
  /\ legacy' = IF has
               THEN [legacy EXCEPT !.user = TRUE, !.run["authEvent"].pc = "fetch"]
               ELSE Ended(NoAccount([legacy EXCEPT !.user = FALSE]), "authEvent")
  /\ UNCHANGED <<applied, users, accounts, profiles, rows, notnull, clock, sess, last, blob, sync>>

\* the select of the user's row returns: with an error, by throwing, or
\* with the row; the fetch goes on to its next await or to its end
LegacyFetchReturns(r, kind) ==
  /\ legacy.run[r].pc = "fetch"
  /\ kind = "row" => blob.row
  /\ LET p == blob.prefs
         list == p.studentProfiles
         l1 == [legacy EXCEPT !.account = TRUE, !.prefs = p]
         fresh == LegacyFreshIds(legacy, blob)
         defaultProfile == [id |-> CHOOSE i \in fresh : TRUE,
                            name |-> FirstName(blob.full_name), is_active |-> TRUE]
     IN /\ (kind = "row" /\ Len(list) = 0) => fresh # {}
        /\ legacy' =
             IF kind # "row" THEN Ended(NoAccount(legacy), r)
             ELSE IF Len(list) > 0
             THEN IF p.activeProfileId \in IdsOf(list)
                  THEN Ended(Shown(l1, list, p.activeProfileId), r)
                  ELSE [l1 EXCEPT !.run[r] = [pc |-> "save_active", prefs |-> p,
                                              pend |-> list, act |-> list[1].id]]
             ELSE [l1 EXCEPT !.run[r] = [pc |-> "save_default", prefs |-> p,
                                         pend |-> <<defaultProfile>>,
                                         act |-> defaultProfile.id]]
  /\ UNCHANGED <<applied, users, accounts, profiles, rows, notnull, clock, sess, last, blob, sync>>

\* the preferences a fetch writes: userPreferences with the first profile as
\* activeProfileId, or the default profile alone
LegacySaved(run) ==
  IF run.pc = "save_active"
  THEN [run.prefs EXCEPT !.activeProfileId = run.act]
  ELSE [studentProfiles |-> run.pend, activeProfileId |-> run.act, other |-> FALSE]

\* the store receives the update of preferences a fetch has sent, and
\* applies or rejects it
LegacySaveApplied(r, ok) ==
  /\ legacy.run[r].pc \in {"save_active", "save_default"}
  /\ blob' = IF ok THEN WriteBlob(LegacySaved(legacy.run[r])) ELSE blob
  /\ legacy' = [legacy EXCEPT !.run[r].pc = "saved"]
  /\ UNCHANGED <<applied, users, accounts, profiles, rows, notnull, clock, sess, last, sync>>

\* the await of the update ends, with an answer whose error is not read or
\* by throwing, and the fetch runs to its end
LegacySaveReturns(r, throws) ==
  /\ legacy.run[r].pc = "saved"
  /\ LET run == legacy.run[r]
     IN legacy' = IF throws
                  THEN Ended(NoAccount(legacy), r)
                  ELSE Ended(Shown(legacy, run.pend, run.act), r)
  /\ UNCHANGED <<applied, users, accounts, profiles, rows, notnull, clock, sess, last, blob, sync>>

\* refreshAccountAndProfiles() after a write, its statements completing
Refetched(l, b) ==
  LET p == b.prefs
      list == p.studentProfiles
      l1 == [l EXCEPT !.account = TRUE, !.prefs = p]
      defaultProfile == [id |-> CHOOSE i \in LegacyFreshIds(l, b) : TRUE,
                         name |-> FirstName(b.full_name), is_active |-> TRUE]
  IN IF Len(list) > 0
     THEN IF p.activeProfileId \in IdsOf(list)
          THEN [l |-> Shown(l1, list, p.activeProfileId), b |-> b]
          ELSE [l |-> Shown(l1, list, list[1].id),
                b |-> [b EXCEPT !.prefs.activeProfileId = list[1].id]]
     ELSE [l |-> Shown(l1, <<defaultProfile>>, defaultProfile.id),
           b |-> [b EXCEPT !.prefs = [studentProfiles |-> <<defaultProfile>>,
                                      activeProfileId |-> defaultProfile.id,
                                      other |-> FALSE]]]

\* selectStudentProfile(profileId) of a listed profile
selectStudentProfile_legacy(profileId, ok) ==
  /\ legacy.user /\ legacy.account /\ legacy.listed
  /\ profileId \in IdsOf(legacy.profiles)
  /\ LET newPreferences == [studentProfiles |-> legacy.profiles,
                            activeProfileId |-> profileId, other |-> FALSE]
     IN /\ blob' = IF ok THEN WriteBlob(newPreferences) ELSE blob
        /\ legacy' = IF ok THEN [legacy EXCEPT !.active = profileId] ELSE legacy
        /\ last' = [op |-> "legacy_select", id |-> profileId, done |-> ok,
                    n |-> IF last.op = "legacy_select" THEN 1 - last.n ELSE 0]
  /\ UNCHANGED <<applied, users, accounts, profiles, rows, notnull, clock, sess, sync>>

\* createStudentProfile(profileName): the new profile appended to
\* account.preferences.studentProfiles, the update, then the refresh
createStudentProfile_legacy(profileName, ok) ==
  /\ legacy.user /\ legacy.account
  /\ Len(legacy.prefs.studentProfiles) < MaxBlobProfiles
  /\ LegacyFreshIds(legacy, blob) # {}
  /\ LET newProfile == [id |-> CHOOSE i \in LegacyFreshIds(legacy, blob) : TRUE,
                        name |-> profileName, is_active |-> TRUE]
         newPreferences ==
           [studentProfiles |-> Append(legacy.prefs.studentProfiles, newProfile),
            activeProfileId |-> newProfile.id, other |-> FALSE]
         f == Refetched(legacy, [blob EXCEPT !.prefs = newPreferences])
     IN /\ blob' = IF ok /\ blob.row THEN f.b ELSE blob
        /\ legacy' = IF ok /\ blob.row THEN f.l ELSE legacy
        /\ last' = [op |-> "legacy_create", id |-> newProfile.id, done |-> ok,
                    n |-> IF last.op = "legacy_create" THEN 1 - last.n ELSE 0]
  /\ UNCHANGED <<applied, users, accounts, profiles, rows, notnull, clock, sess, sync>>

LegacyKinds == {"row", "error", "throws"}

LegacyResolution ==
  \/ \E has \in BOOLEAN : GetSessionResolves(has)
  \/ GetSessionRejects
  \/ \E has \in BOOLEAN : AuthStateChange(has)
  \/ \E r \in Runs, kind \in LegacyKinds : LegacyFetchReturns(r, kind)
  \/ \E r \in Runs, ok \in BOOLEAN : LegacySaveApplied(r, ok)
  \/ \E r \in Runs, throws \in BOOLEAN : LegacySaveReturns(r, throws)

LegacyOperations ==
  \/ \E id \in BlobIds, ok \in BOOLEAN : selectStudentProfile_legacy(id, ok)
  \/ \E name \in BlobNames, ok \in BOOLEAN : createStudentProfile_legacy(name, ok)

-----------------------------------------------------------------------------
\* specifications

NoOp == [op |-> "none"]

\* a database of before the multi-user migrations: some accounts, some rows
\* that carry a user_id only, no client signed in
Init ==
  /\ applied = 0
  /\ \E S \in SUBSET Accounts :
       /\ users = S
       /\ accounts = [a \in S |-> "Ann"]
       /\ \E n \in 0..MaxRows :
            rows \in [1..n -> [tbl : RowTables, user_id : S \cup {NullAcct},
                               student_profile_id : {NoId}]]
  /\ profiles = <<>>
  /\ notnull = {}
  /\ clock = 0
  /\ sess = [s \in Sessions |-> NoSession]
  /\ last = NoOp
  /\ blob = NoBlob
  /\ sync = [d \in Devices |-> NoSync]
  /\ legacy = NoLegacy

Migrations == ApplyBillowingMode \/ ApplyPurpleFire \/ ApplyColdPond

Reruns == RunBillowingSteps \/ RunMigratePurple \/ RunMigrateCold

Bootstrap ==
  \E a \in Accounts, full \in FullNames, initial \in InitialNames :
    SignUp(a, full, initial)

SignInOut ==
  \/ \E s \in Sessions, a \in Accounts : Login(s, a)
  \/ \E s \in Sessions : SignOut(s)

Lifecycle(cap, delcap) ==
  \/ \E s \in Sessions :
       \E name \in NameChoices(profiles, sess[s].user) :
         createStudentProfile(s, name, cap)
  \/ \E s \in Sessions, pid \in DOMAIN profiles :
       deleteStudentProfile(s, pid, delcap)

Selection ==
  \E s \in Sessions, pid \in DOMAIN profiles : selectStudentProfile(s, pid)

Updates ==
  \E s \in Sessions, pid \in DOMAIN profiles, field \in UpdateFields :
    \E value \in UpdateValues(profiles, sess[s].user, field) :
      updateStudentProfile(s, pid, field, value)

Hooks(cap) ==
  \/ \E s \in Sessions, tbl \in RowTables : useStudentData(s, tbl)
  \/ \E s \in Sessions : useCreateStudentDocument(s, cap)

RowApi(cap) ==
  \/ \E uid \in users, k \in DOMAIN rows : RowSelect(uid, k)
  \/ \E uid \in users, tbl \in RowTables, owner \in Accounts \cup {NullAcct},
        pid \in DOMAIN profiles \cup {NoId} : RowInsert(uid, tbl, owner, pid, cap)
  \/ \E uid \in users, k \in DOMAIN rows, pid \in DOMAIN profiles \cup {NoId} :
       RowUpdate(uid, k, pid)
  \/ \E uid \in users, k \in DOMAIN rows : RowDelete(uid, k)

SwitchApi ==
  \E uid \in users, pid \in DOMAIN profiles \cup {MissingId} :
    SwitchToProfile(uid, pid)

\* every operation
Next ==
  \/ Migrations
  \/ Reruns
  \/ Bootstrap
  \/ SignInOut
  \/ Lifecycle(MaxSlots, MaxDeletes)
  \/ Selection
  \/ Updates
  \/ Hooks(HookRowCap)
  \/ RowApi(HookRowCap)
  \/ SwitchApi
  \/ Tick
  \/ \E d \in Devices : Resolution(d) \/ BlobSelection(d) \/ BlobLifecycle(d)

Spec == Init /\ [][Next]_vars

\* the policies under direct calls: no passing of time
NextAccess ==
  \/ Migrations
  \/ SignInOut
  \/ \E s \in Sessions, pid \in DOMAIN profiles :
       deleteStudentProfile(s, pid, MaxDeletes)
  \/ RowApi(AccessRowCap)

SpecAccess == Init /\ [][NextAccess]_vars

\* the same database without rows
InitNoRows == Init /\ rows = <<>>

\* the migration procedures, first runs and later ones, during the life of
\* the database

NextMigrate ==
  \/ Migrations
  \/ Reruns
  \/ SignInOut
  \/ \E s \in Sessions, pid \in DOMAIN profiles :
       deleteStudentProfile(s, pid, MaxDeletes)
  \/ \E uid \in users, tbl \in RowTables, owner \in Accounts \cup {NullAcct},
        pid \in DOMAIN profiles \cup {NoId} :
       RowInsert(uid, tbl, owner, pid, AccessRowCap)

SpecMigrate == Init /\ [][NextMigrate]_vars

\* new accounts, before, between and after the migrations
NextBootstrap ==
  \/ Migrations
  \/ Bootstrap
  \/ SignInOut
  \/ \E s \in Sessions, pid \in DOMAIN profiles :
       deleteStudentProfile(s, pid, MaxDeletes)

SpecBootstrap == InitNoRows /\ [][NextBootstrap]_vars

\* the preferences-blob provider resolving the session of one user, over
\* every content of the user's row; a build without a configured store has
\* no row to write to
InitSync ==
  /\ applied = 0
  /\ users = {}
  /\ accounts = <<>>
  /\ profiles = <<>>
  /\ rows = <<>>
  /\ notnull = {}
  /\ clock = 0
  /\ sess = [s \in Sessions |-> NoSession]
  /\ last = NoOp
  /\ \E full \in MetaNames :
       \/ blob = [NoBlob EXCEPT !.full_name = full]
       \/ \E list \in BlobLists, ptr \in BlobPointers, other \in BOOLEAN :
            blob = [row |-> TRUE, full_name |-> full,
                    prefs |-> [studentProfiles |-> list, activeProfileId |-> ptr,
                               other |-> other]]
  /\ \E ready \in BOOLEAN :
       /\ sync = [d \in Devices |-> [NoSync EXCEPT !.ready = ready]]
       /\ ~ready => ~blob.row
  /\ legacy = NoLegacy

\* one device resolving
NextSync == Resolution("d1")

SpecSync == InitSync /\ [][NextSync]_vars

\* timers fire; nothing makes the store answer
SpecSyncLive ==
  SpecSync /\ \A d \in Devices : WF_vars(FetchTimerFires(d)) /\ WF_vars(InsertTimerFires(d))

\* one device resolving and managing the profiles of the blob
NextBlob == Resolution("d1") \/ BlobSelection("d1") \/ BlobLifecycle("d1")

SpecBlob == InitSync /\ [][NextBlob]_vars

\* one device whose user signs out while the provider resolves, and does
\* not sign in again
NextSignOut ==
  \/ last.op # "signed_out" /\ BeginResolve("d1")
  \/ SignOutEvent("d1")
  \/ SessionEnds("d1")
  \/ \E kind \in FetchKinds : FetchReturns("d1", kind)
  \/ FetchThrows("d1")
  \/ FetchTimerFires("d1")
  \/ \E kind \in GetUserKinds : GetUserReturns("d1", kind)
  \/ GetUserThrows("d1")
  \/ \E ok \in BOOLEAN : InsertReturns("d1", ok)
  \/ InsertThrows("d1")
  \/ InsertTimerFires("d1")
  \/ \E ok \in BOOLEAN : UpdateReturns("d1", ok)
  \/ UpdateThrows("d1")

SpecSignOut == InitSync /\ [][NextSignOut]_vars

\* the first preferences-blob provider over the row of its user
InitLegacy == InitSync /\ \A d \in Devices : sync[d].ready

NextLegacy == LegacyResolution \/ LegacyOperations

SpecLegacy == InitLegacy /\ [][NextLegacy]_vars

\* the mount of that provider: getSession settles and every request sent to
\* the store is answered, in some way; auth events may arrive or not
SpecBoot == InitLegacy /\ [][LegacyResolution]_vars

SpecBootLive ==
  /\ SpecBoot
  /\ WF_vars((\E has \in BOOLEAN : GetSessionResolves(has)) \/ GetSessionRejects)
  /\ WF_vars(\E r \in Runs, kind \in LegacyKinds : LegacyFetchReturns(r, kind))
  /\ WF_vars(\E r \in Runs, ok \in BOOLEAN : LegacySaveApplied(r, ok))
  /\ WF_vars(\E r \in Runs, throws \in BOOLEAN : LegacySaveReturns(r, throws))

\* the mount of that provider for a signed-in user whose row holds no
\* profile, the store answering every request: getSession resolves and auth
\* events arrive, each starting a fetch
InitMount == InitLegacy /\ blob.row /\ blob.prefs.studentProfiles = <<>>

NextMount ==
  \/ GetSessionResolves(TRUE)
  \/ AuthStateChange(TRUE)
  \/ \E r \in Runs : \/ LegacyFetchReturns(r, "row")
                      \/ LegacySaveApplied(r, TRUE)
                      \/ LegacySaveReturns(r, FALSE)

SpecMount == InitMount /\ [][NextMount]_vars

\* two devices of the user resolving and selecting profiles
NextRace ==
  \E d \in Devices :
    \/ Resolution(d)
    \/ \E id \in IdsOf(sync[d].profiles), ok \in BOOLEAN :
         selectStudentProfile_blob(d, id, ok)

\* the user has no row yet, or a row that holds two profiles, no default
\* profile yet and no other preference; the store is configured
InitRace ==
  /\ InitSync
  /\ blob.row => Len(blob.prefs.studentProfiles) = 2
  /\ blob.prefs.activeProfileId = NoProfile
  /\ ~blob.prefs.other
  /\ blob.full_name = Null
  /\ \A d \in Devices : sync[d].ready

SpecRace == InitRace /\ [][NextRace]_vars

\* two devices of the user over a row that holds one profile, the default
\* one, the store answering every fetch with the row: each device
\* resolves, selects and renames the profiles it lists and creates profiles
InitShared ==
  /\ InitSync
  /\ blob.row
  /\ ~blob.prefs.other
  /\ blob.full_name = Null
  /\ Len(blob.prefs.studentProfiles) = 1
  /\ blob.prefs.activeProfileId = "p1"

NextShared ==
  \E d \in Devices :
    \/ BeginResolve(d)
    \/ FetchReturns(d, "data")
    \/ \E id \in IdsOf(sync[d].profiles), ok \in BOOLEAN :
         selectStudentProfile_blob(d, id, ok)
    \/ \E id \in IdsOf(sync[d].profiles), ok \in BOOLEAN :
         updateStudentProfile_blob(d, id, "Cy", ok)
    \/ \E ok \in BOOLEAN : createStudentProfile_blob(d, "Bob", ok)

SpecShared == InitShared /\ [][NextShared]_vars

\* the life of the profiles of the normalized table, for two accounts that
\* exist before the migrations: created by the migrations and the client,
\* renamed, moved, deactivated and reactivated, switched
InitProfiles == InitNoRows /\ users = Accounts

NextProfiles ==
  \/ Migrations
  \/ \E s \in Sessions, a \in Accounts : Login(s, a)
  \/ Lifecycle(MaxSlots, LimitDeletes)
  \/ Selection
  \/ Updates

SpecProfiles == InitProfiles /\ [][NextProfiles]_vars

\* the hooks of a signed-in client over the profiles of its account
NextHooks ==
  \/ Migrations
  \/ SignInOut
  \/ Lifecycle(MaxSlots, MaxDeletes)
  \/ Selection
  \/ Hooks(HookRowCap)

SpecHooks == InitNoRows /\ [][NextHooks]_vars

\* switching profiles as time passes
NextSwitch ==
  \/ Migrations
  \/ SignInOut
  \/ Lifecycle(MaxSlots, MaxDeletes)
  \/ Selection
  \/ SwitchApi
  \/ Tick

SpecSwitch == InitNoRows /\ [][NextSwitch]_vars

\* one account on its way to the profile limit: no rows, no passing of time
InitLimit ==
  /\ applied = 0
  /\ users = {"a1"}
  /\ accounts = [a \in {"a1"} |-> "Ann"]
  /\ rows = <<>>
  /\ profiles = <<>>
  /\ notnull = {}
  /\ clock = 0
  /\ sess = [s \in Sessions |-> NoSession]
  /\ last = NoOp
  /\ blob = NoBlob
  /\ sync = [d \in Devices |-> NoSync]
  /\ legacy = NoLegacy

NextLimit ==
  \/ Migrations
  \/ \E s \in Sessions, a \in Accounts : Login(s, a)
  \/ Lifecycle(LimitSlots, LimitDeletes)

SpecLimit == InitLimit /\ [][NextLimit]_vars

\* one account whose session selects profiles, the store answering the
\* switch_to_profile call or not
NextSelect ==
  \/ Migrations
  \/ \E s \in Sessions, a \in Accounts : Login(s, a)
  \/ Lifecycle(MaxSlots, LimitDeletes)
  \/ Selection
  \/ \E s \in Sessions, pid \in DOMAIN profiles : selectStudentProfile_rpc_fails(s, pid)

SpecSelect == InitLimit /\ [][NextSelect]_vars

\* one account that creates profiles, deletes them and creates them again
NextDelete ==
  \/ Migrations
  \/ \E s \in Sessions, a \in Accounts : Login(s, a)
  \/ Lifecycle(DeleteSlots, MaxDeletes)

SpecDelete == InitLimit /\ [][NextDelete]_vars

TypeOK ==
  /\ applied \in 0..3
  /\ users \subseteq Accounts
  /\ DOMAIN accounts \subseteq users
  /\ \A i \in DOMAIN profiles : profiles[i].account_id \in DOMAIN accounts
  /\ clock \in 0..MaxClock
  /\ notnull \subseteq Tables

-----------------------------------------------------------------------------
\* properties of the access rules (specification SpecAccess)

\* C1: once all three migrations are applied, is_student_profile_owner holds
\* of a caller and a profile id exactly when the profile exists, belongs to
\* the caller's account and is active
C1_OwnerIffActiveOwned ==
  applied = 3 =>
    \A uid \in Accounts, pid \in DOMAIN profiles \cup {MissingId} :
      is_student_profile_owner(profiles, uid, pid) <=> RefOwner(profiles, uid, pid)

\* C3: a read, insert, update or delete of a row that references a profile
\* takes effect only if that profile exists, belongs to the caller and is
\* active; in particular never on a row of another account's profile
C3_RefusedUnlessOwner ==
  (/\ last.op \in {"row_select", "row_insert", "row_update", "row_delete"}
   /\ ~last.noref
   /\ last.allowed)
  => last.owner /\ ~last.foreign

C5_NoLegacyAfterTightening ==
  (/\ last.op \in {"row_select", "row_insert", "row_update", "row_delete"}
   /\ last.tight)
  => ~(last.noref /\ last.done)

\* the policy's legacy branch would let the insert through; the table refuses
C5_Witness ==
  /\ applied >= 2
  /\ last.op = "row_insert"
  /\ last.tight /\ last.noref /\ last.legacy
  /\ last.allowed /\ ~last.done

-----------------------------------------------------------------------------
\* properties of the hooks (specification SpecHooks)

-----------------------------------------------------------------------------
\* properties of the profile limit (specification SpecLimit)

\* C6: an account never has more than ProfileLimit active profiles
C6_AtMostTenActive ==
  \A a \in Accounts : Cardinality(ActiveOf(profiles, a)) <= ProfileLimit

\* C7: creating a profile under a valid name no active profile of the
\* account uses succeeds exactly when the account has fewer than
\* ProfileLimit active profiles
C7_CreateIffBelowLimit ==
  (last.op = "create" /\ last.valid /\ last.unused)
  => (last.ok <=> last.activeBefore < ProfileLimit)

\* C8: no step takes the last active profile of an account away
C8_SoleProfileKept ==
  [][\A a \in Accounts :
       ActiveOf(profiles, a) # {} => ActiveOf(profiles', a) # {}]_vars

-----------------------------------------------------------------------------
\* properties of switch_to_profile (specification SpecSwitch)

\* C9, as stated: the second of two calls in a row on the same owned active
\* profile succeeds and changes nothing but that profile's last_accessed_at,
\* which does not decrease
C9_OnlyLastAccessedChanges ==
  [][(last'.op = "switch" /\ last'.owner /\ last'.again)
     => /\ last'.ok
        /\ DOMAIN profiles' = DOMAIN profiles
        /\ \A i \in DOMAIN profiles :
             /\ i # last'.pid => profiles'[i] = profiles[i]
             /\ profiles'[i] = [profiles[i] EXCEPT
                                  !.last_accessed_at = profiles'[i].last_accessed_at]
             /\ profiles'[i].last_accessed_at >= profiles[i].last_accessed_at
        /\ UNCHANGED <<applied, users, accounts, rows, notnull, sess>>]_vars

\* C9, as the code has it: every call on an owned active profile, the second
\* of two in a row included, succeeds and changes nothing but that profile's
\* last_accessed_at and updated_at; no step decreases a last_accessed_at
C9_OnlyStampsChange ==
  [][/\ (last'.op = "switch" /\ last'.owner)
        => /\ last'.ok
           /\ DOMAIN profiles' = DOMAIN profiles
           /\ \A i \in DOMAIN profiles :
                /\ i # last'.pid => profiles'[i] = profiles[i]
                /\ profiles'[i] = [profiles[i] EXCEPT
                                     !.last_accessed_at = profiles'[i].last_accessed_at,
                                     !.updated_at = profiles'[i].updated_at]
           /\ UNCHANGED <<applied, users, accounts, rows, notnull, sess>>
     /\ \A i \in DOMAIN profiles :
          /\ i \in DOMAIN profiles'
          /\ profiles'[i].last_accessed_at >= profiles[i].last_accessed_at]_vars

\* the second call in a row, later than the first, has stamped the profile
C9_Witness ==
  /\ last.op = "switch"
  /\ last.again /\ last.owner /\ last.ok
  /\ clock > 0
  /\ profiles[last.pid].last_accessed_at = clock
  /\ profiles[last.pid].updated_at = clock

\* C10: a call on a profile that is missing, inactive or of another account
\* changes no profile
C10_DeniedSwitchStampsNothing ==
  [][(last'.op = "switch" /\ ~last'.owner) => profiles' = profiles]_vars

-----------------------------------------------------------------------------
\* properties of the migration procedures (specification SpecMigrate)

\* C11: a migration procedure run again on the state its first run produced
\* completes without error and leaves the profiles, every row's profile
\* reference and the tightened tables as they are
C11_SecondRunChangesNothing ==
  [][(last'.op = "remigrate" /\ last'.first)
     => /\ last'.ok
        /\ profiles' = profiles
        /\ rows' = rows
        /\ notnull' = notnull]_vars

\* C12: a migration procedure that completes leaves every row that had no
\* profile reference and a user_id naming an account with a reference to an
\* active profile of that account
C12_LegacyRowsBackfilled ==
  [][(last'.op \in {"migrate", "remigrate"} /\ last'.ok)
     => \A k \in DOMAIN rows :
          (rows[k].student_profile_id = NoId /\ rows[k].user_id \in DOMAIN accounts)
          => /\ rows'[k].student_profile_id \in DOMAIN profiles'
             /\ profiles'[rows'[k].student_profile_id].account_id = rows[k].user_id
             /\ profiles'[rows'[k].student_profile_id].is_active]_vars

\* C13: a migration procedure that raises commits nothing, and one that
\* completes leaves no account with a profile it created and a row of the
\* account it did not backfill: an account is migrated wholly or not at all
C13_AccountsMigratedAtomically ==
  [][last'.op \in {"migrate", "remigrate"}
     => /\ ~last'.ok => (profiles' = profiles /\ rows' = rows /\ notnull' = notnull)
        /\ \A a \in DOMAIN accounts :
             ProfilesOf(profiles', a) # ProfilesOf(profiles, a)
             => ~\E k \in DOMAIN rows' :
                   rows'[k].user_id = a /\ rows'[k].student_profile_id = NoId]_vars

\* a run that raised after it had processed an account
C13_Witness ==
  /\ last.op \in {"migrate", "remigrate"}
  /\ ~last.ok
  /\ last.partial

-----------------------------------------------------------------------------
\* properties of the new-account bootstrap (specification SpecBootstrap)

\* C14: when an insert of a profile raises inside the bootstrap trigger, the
\* credential is created and the account row the trigger wrote exists
C14_AccountSurvivesProfileFailure ==
  (last.op = "signup" /\ ~last.ok)
  => (last.a \in users /\ last.a \in DOMAIN accounts)

\* C15: after a sign-up with all migrations applied the new account has
\* exactly one profile
C15_OneProfilePerSignUp ==
  (applied = 3 /\ last.op = "signup")
  => Cardinality(ProfilesOf(profiles, last.a)) = 1

-----------------------------------------------------------------------------
\* properties of session resolution, normalized-table provider

\* C16 (specification SpecBootstrap): signing in to an account without
\* active profile creates exactly one profile named after the account's
\* display name and ends with it as the active profile and stored pointer
C16_ResolveCreatesProfile ==
  [][\A s \in Sessions :
       (/\ sess[s].user = NullAcct
        /\ sess'[s].user # NullAcct
        /\ sess'[s].account
        /\ ActiveOf(profiles, sess'[s].user) = {})
       => /\ sess'[s].active # NoId
          /\ ActiveOf(profiles', sess'[s].user) = {sess'[s].active}
          /\ profiles'[sess'[s].active].profile_name = accounts[sess'[s].user]
          /\ sess'[s].stored = sess'[s].active]_vars

C18_ResolutionAlwaysEnds ==
  \A d \in Devices :
    /\ (sync[d].pc \notin {"idle", "done"}) ~> (sync[d].pc = "done" /\ ~sync[d].loading)
    /\ [](sync[d].pc = "done" /\ sync[d].cause = "timeout"
            => sync[d].active # NoProfile /\ ~sync[d].loading)

\* C19 (specification SpecSync): a resolution that met a store failure of
\* any kind ends with an account and an active profile in the provider
C19_FailuresKeepSession ==
  \A d \in Devices :
    sync[d].pc = "done" /\ sync[d].cause # "none"
      => sync[d].account # "none" /\ sync[d].active # NoProfile

\* C21 (specification SpecBlob): a delete that succeeds on a profile of the
\* store leaves the profile in the store
C21_DeleteKeepsRecord ==
  [][(/\ last'.op = "blob_delete"
      /\ last'.done
      /\ last'.id \in IdsOf(blob.prefs.studentProfiles))
     => last'.id \in IdsOf(blob'.prefs.studentProfiles)]_vars

\* C22 (specification SpecBlob): a create or a rename, by a provider that
\* holds the account's row, with a name that is blank or that another stored
\* profile has is refused and leaves the store as it was
C22_InvalidNamesRejected ==
  [][(/\ last' # last
      /\ sync["d1"].account = "row"
      /\ last'.op \in {"blob_create", "blob_update"}
      /\ TrimLength(last'.name) = 0 \/ last'.taken)
     => ~last'.done /\ blob' = blob]_vars

\* C23 (specification SpecProfiles): no migration, sign-in, create, update,
\* delete or switch removes a profile or changes the account_id of one
C23_AccountIdImmutable ==
  [][\A i \in DOMAIN profiles :
       /\ i \in DOMAIN profiles'
       /\ profiles'[i].account_id = profiles[i].account_id]_vars

\* an update that would have moved a profile of the caller to another
\* account was attempted and refused
C23_Witness ==
  /\ last.op = "update"
  /\ last.hit
  /\ last.moves
  /\ ~last.ok

\* C29 (specification SpecMigrate): a run of a data migration that completes
\* gives an account a new profile exactly when the account had no active
\* profile before the run
C29_DefaultIffNoActive ==
  [][(/\ last'.op \in {"migrate", "remigrate"}
      /\ last'.ok
      /\ last' # last \/ profiles' # profiles)
     => \A a \in DOMAIN accounts :
          (ProfilesOf(profiles', a) # ProfilesOf(profiles, a))
            <=> (ActiveOf(profiles, a) = {})]_vars

\* the rows of table t that have no profile reference
NullRows(R, t) == {k \in DOMAIN R : R[k].tbl = t /\ R[k].student_profile_id = NoId}

\* C30 (specification SpecMigrate): the application of billowing_mode makes
\* student_profile_id NOT NULL with a foreign key on exactly the tables in
\* which no row is left without a profile reference, and it completes when
\* rows without a reference remain
C30_TightenedOnlyWithoutNulls ==
  [][(applied = 0 /\ last'.op = "migrate" /\ last'.file = 1 /\ last' # last)
     => /\ last'.ok /\ applied' = 1
        /\ \A t \in Tables : t \in notnull' <=> NullRows(rows', t) = {}]_vars

\* billowing_mode was applied with a row nobody owns: its table is skipped,
\* the row keeps its null reference and the other tables are tightened
C30_Witness ==
  /\ applied = 1 /\ last.op = "migrate" /\ last.file = 1 /\ last.ok
  /\ \E k \in DOMAIN rows :
       /\ rows[k].student_profile_id = NoId
       /\ rows[k].tbl \notin notnull
  /\ notnull # {}

\* C31 (specification SpecBlob): the profile a successful createStudentProfile
\* of the preferences-blob provider, called with a valid name on an account
\* read from the store, has put in the store is active
C31_CreatedProfileActive ==
  [][(/\ last' # last /\ last'.op = "blob_create" /\ last'.done
      /\ TrimLength(last'.name) > 0 /\ ~last'.taken
      /\ sync["d1"].account = "row")
     => \E p \in SeqRange(blob'.prefs.studentProfiles) :
          p.id = last'.id /\ p.is_active]_vars

\* C32 (specification SpecProfiles): an updateStudentProfile that succeeds
\* on a profile of the caller leaves the account_id, the active flag and the
\* last_accessed_at of every profile as they were, and changes the name of
\* at most one profile
C32_UpdateOnlyMutableFields ==
  [][(last' # last /\ last'.op = "update" /\ last'.ok /\ last'.hit)
     => /\ DOMAIN profiles' = DOMAIN profiles
        /\ \A i \in DOMAIN profiles :
             /\ profiles'[i].account_id = profiles[i].account_id
             /\ profiles'[i].is_active = profiles[i].is_active
             /\ profiles'[i].last_accessed_at = profiles[i].last_accessed_at
        /\ Cardinality({i \in DOMAIN profiles :
                          profiles'[i].profile_name # profiles[i].profile_name}) <= 1]_vars

\* C33 (specification SpecLegacy): after a createStudentProfile of the first
\* preferences-blob provider that succeeded, the stored profiles are the
\* profiles stored before followed by the new profile
C33_CreateKeepsStoredProfiles ==
  [][(last' # last /\ last'.op = "legacy_create" /\ last'.done /\ blob.row)
     => /\ Len(blob'.prefs.studentProfiles) = Len(blob.prefs.studentProfiles) + 1
        /\ SubSeq(blob'.prefs.studentProfiles, 1, Len(blob.prefs.studentProfiles))
             = blob.prefs.studentProfiles
        /\ blob'.prefs.studentProfiles[Len(blob'.prefs.studentProfiles)].id = last'.id]_vars

\* C34 (specification SpecShared): a select or an update that a device which
\* holds the account's row has stored leaves in the store every profile that
\* the device does not list, that is, every profile another device created
\* after this one fetched
C34_NoLostUpdate ==
  [][\A e \in Devices :
       (/\ last' # last
        /\ last'.op \in {"blob_select", "blob_update"}
        /\ last'.d = e /\ last'.done
        /\ sync[e].account = "row")
       => \A p \in SeqRange(blob.prefs.studentProfiles) :
            p.id \notin IdsOf(sync[e].profiles)
            => p \in SeqRange(blob'.prefs.studentProfiles)]_vars

\* C35 (specification SpecMount): once the fetch of getSession and the fetch
\* of the auth event have both ended, the store holds one profile and the
\* active profile of the provider is that profile
C35_OneDefaultAfterMount ==
  (\A r \in Runs : legacy.run[r].pc = "end")
  => /\ Len(blob.prefs.studentProfiles) = 1
     /\ legacy.active = blob.prefs.studentProfiles[1].id

\* C36 (specification SpecSignOut): after the sign-out event, when no fetch
\* is in flight any more and the last one did not end on its temporary
\* profile, the provider holds no account, no profiles and no active
\* profile, and no local pointer
C36_SignOutStaysCleared ==
  (/\ last.op = "signed_out"
   /\ sync["d1"].pc \in {"idle", "done"}
   /\ sync["d1"].account # "temp")
  => /\ sync["d1"].account = "none"
     /\ sync["d1"].profiles = <<>>
     /\ sync["d1"].active = NoProfile
     /\ sync["d1"].local = NoProfile

\* C37 (specification SpecBootLive): after the mount loading becomes false,
\* however getSession settles and whatever the store answers
C37_LoadingEnds == <>(~legacy.loading)

\* C38 (specification SpecSync): a provider at rest with an active profile
\* lists that profile, and the activeProfileId of its account.preferences,
\* when there is one, is the id of that profile
C38_ActiveAmongProfiles ==
  \A d \in Devices :
    (sync[d].pc = "done" /\ sync[d].active # NoProfile)
    => /\ sync[d].active \in IdsOf(sync[d].profiles)
       /\ sync[d].prefs.activeProfileId # NoProfile
            => sync[d].prefs.activeProfileId = sync[d].active

\* C39 (specification SpecDelete): deleteStudentProfile of a profile of the
\* caller succeeds when no account is down to its last active profile,
\* whatever the names of the inactive profiles
C39_DeleteNotBlockedByInactive ==
  [][(/\ last' # last
      /\ last'.op = "delete" /\ last'.hit
      /\ \A a \in DOMAIN accounts : Cardinality(ActiveOf(profiles, a)) # 1)
     => last'.ok]_vars

\* C40 (specification SpecSelect): a selectStudentProfile whose
\* switch_to_profile call fails leaves the active profile and the local
\* pointer of the session as they were
C40_FailedSelectKeepsClient ==
  [][(last' # last /\ last'.op = "select_failed")
     => \A s \in Sessions :
          /\ sess'[s].active = sess[s].active
          /\ sess'[s].stored = sess[s].stored]_vars

\* C24 (specification SpecRace): a selection of a stored profile by one
\* device makes that profile the activeProfileId of the store, whatever the
\* other device selected before, and the active profile of that device only;
\* the active profile of a device changes only by its own selection or its
\* own resolution
C24_LastWriteWins ==
  [][\A e \in Devices :
       /\ (/\ last' # last
           /\ last'.op = "blob_select" /\ last'.d = e
           /\ last'.done
           /\ last'.id \in IdsOf(blob.prefs.studentProfiles))
          => /\ blob'.prefs.activeProfileId = last'.id
             /\ sync'[e].active = last'.id
             /\ \A d \in Devices \ {e} : sync'[d].active = sync[d].active
       /\ sync'[e].active # sync[e].active
          => \/ sync'[e].pc # sync[e].pc
             \/ last' # last /\ last'.op = "blob_select" /\ last'.d = e]_vars

\* the two devices selected different stored profiles one after the other:
\* each is on its own profile, the store on the one selected last
C24_Witness ==
  /\ last.op = "blob_select" /\ last.done
  /\ last.d = "d2" /\ last.prev = "d1"
  /\ last.id \in IdsOf(blob.prefs.studentProfiles)
  /\ sync["d1"].pc = "done" /\ sync["d2"].pc = "done"
  /\ sync["d1"].active \in IdsOf(blob.prefs.studentProfiles)
  /\ sync["d1"].active # sync["d2"].active
  /\ blob.prefs.activeProfileId = sync["d2"].active

\* C25 (specification SpecBlob): a write of a provider that holds the
\* account's row keeps the other preference keys of the blob and every
\* stored profile but the one a delete names
C25_WritesKeepOtherData ==
  [][sync["d1"].account # "temp" /\ sync'["d1"].account # "temp"
     => /\ blob.prefs.other => blob'.prefs.other
        /\ \A p \in SeqRange(blob.prefs.studentProfiles) :
              \/ p.id \in IdsOf(blob'.prefs.studentProfiles)
              \/ last'.op = "blob_delete" /\ last'.id = p.id]_vars

\* C26 (specification SpecBlob): the stored list of profiles never holds a
\* temporary profile
C26_TransientNeverStored ==
  TempId \notin IdsOf(blob.prefs.studentProfiles)

\* C27 (specification SpecSync): a resolution that ends on a profile of the
\* account's row has that profile in the locally stored pointer
C27_ResolvedPointerKeptLocally ==
  \A d \in Devices :
    (sync[d].pc = "done" /\ sync[d].account = "row" /\ sync[d].active # NoProfile)
      => sync[d].local = sync[d].active

\* C28 (specification SpecSync): a resolution that ends on a profile of the
\* account's row has sent the write that makes it the account's active one
C28_ResolutionSwitches ==
  \A d \in Devices :
    (sync[d].pc = "done" /\ sync[d].account = "row" /\ sync[d].active # NoProfile)
      => sync[d].wrote

=============================================================================
